---- MODULE Spec2Model ----
(***************************************************************************)
(* Model of the Python/C++ binding layer src/trm/roche/roche.cc.           *)
(*                                                                         *)
(* Each Python-callable handler (roche_findq, roche_fblink, roche_ineg,    *)
(* roche_lobe1, roche_lobe2, roche_stream, roche_strmnx, roche_vlobe1,     *)
(* roche_vlobe2, roche_vstream) is one action; the two handlers that loop  *)
(* (roche_findq, roche_strmnx) have one further action per loop iteration  *)
(* and one for the code after the loop.                                    *)
(*                                                                         *)
(* Numbers.  The doubles findq computes with (qlo, qhi, q, dq and the      *)
(* engine's threshold) are IEEE-754 doubles, held exactly: the double      *)
(*      (-1)^s * (h * 2^28 + l) * 2^e                                      *)
(* is the tuple <<s, e, h, l>>, with l < 2^28 and h * 2^28 + l < 2^53; the *)
(* significand has its 53rd bit set unless e is -1074, the exponent of the *)
(* subnormal doubles and of zero.  e = 972 marks an infinity (significand  *)
(* zero) or a NaN.  So 1.0 is <<0, -52, 2^24, 0>>.  Sums and differences   *)
(* are rounded to nearest, ties to even, as the machine rounds them;       *)
(* comparisons with a NaN are false.  The sentinels -1. and -2. are D_neg  *)
(* of 1.0 and 2.0.                                                         *)
(* The other doubles are only compared with literals and passed on; each   *)
(* is an integer count of a unit:                                          *)
(*   angles            degrees                                             *)
(*   phases (pwidth)   1e-3 of an orbital cycle                            *)
(*   acc               1e-4  (1e-7 in strmnx), delta 1e-7                  *)
(*   mass ratios q     1     (handlers other than findq)                   *)
(*   step, rad, ffac   1e-2                                                *)
(*                                                                         *)
(* The engine (namespace Roche, header trm_roche.h) is outside this file.  *)
(* Roche::fblink is a pure function; a larger mass ratio means a larger    *)
(* secondary star, so the point is eclipsed from some mass ratio thr on,   *)
(* thr being chosen by the environment.                                    *)
(* Roche::ingress_egress, Roche::vstrreg and PyArray_SimpleNew succeed or  *)
(* fail as the environment chooses.                                        *)
(***************************************************************************)
EXTENDS Integers, Sequences, FiniteSets

VARIABLES pc, op, nargs, args, loc, thr, calls, ncalls, ret, buf

vars == <<pc, op, nargs, args, loc, thr, calls, ncalls, ret, buf>>

(* ---------------------------------------------------------------------- *)
(* Bounds of the model                                                     *)
(* ---------------------------------------------------------------------- *)

\* the engine-call counter saturates here (an endless loop would count on)
MaxCalls == 80
\* largest turning-point index tried
MaxN == 3
\* largest arc length the engine advances in one turning-point step
MaxArcStep == 2

(* ---------------------------------------------------------------------- *)
(* Units and the constants of the source                                   *)
(* ---------------------------------------------------------------------- *)

\* the limbs of a significand are digits in this base, 2^28
Limb == 268435456
\* the exponent of the least bit of the smallest doubles, and the exponent
\* that marks an infinity or a NaN
EMin == 0 - 1074
ESpecial == 972

D_zero == <<0, EMin, 0, 0>>
D_nan == <<0, ESpecial, 1, 0>>
D_inf(s) == <<s, ESpecial, 0, 0>>

D_isnan(a) == a[2] = ESpecial /\ (a[3] # 0 \/ a[4] # 0)
D_isinf(a) == a[2] = ESpecial /\ a[3] = 0 /\ a[4] = 0
D_iszero(a) == a[2] # ESpecial /\ a[3] = 0 /\ a[4] = 0

\* -a
D_neg(a) == IF D_isnan(a) THEN a ELSE <<1 - a[1], a[2], a[3], a[4]>>

\* two-limb naturals <<h, l>> = h * 2^28 + l: order, sum, difference (a >= b)
N_lt(a, b) == a[1] < b[1] \/ (a[1] = b[1] /\ a[2] < b[2])

N_add(a, b) ==
    LET l == a[2] + b[2]
    IN <<a[1] + b[1] + (l \div Limb), l % Limb>>

N_sub(a, b) ==
    LET l == a[2] - b[2]
    IN IF l < 0 THEN <<a[1] - b[1] - 1, l + Limb>> ELSE <<a[1] - b[1], l>>

\* a shifted right by d bits; a 1 shifted out is kept in the last bit
N_shr(a, d) ==
    IF d = 0 THEN a
    ELSE IF d < 28 THEN
        LET p == 2^d
            l == (a[2] \div p) + (a[1] % p) * (Limb \div p)
        IN <<a[1] \div p, IF a[2] % p # 0 /\ l % 2 = 0 THEN l + 1 ELSE l>>
    ELSE IF d < 58 THEN
        LET p == 2^(d - 28)
            l == a[1] \div p
        IN <<0, IF (a[2] # 0 \/ a[1] % p # 0) /\ l % 2 = 0 THEN l + 1 ELSE l>>
    ELSE IF a = <<0, 0>> THEN a ELSE <<0, 1>>

\* a shifted left by one bit
N_shl1(a) == <<a[1] * 2 + (a[2] \div 134217728), (a[2] % 134217728) * 2>>

\* a significand with three further bits: 8 * (h * 2^28 + l)
N_ext(h, l) == <<h * 8 + (l \div 33554432), (l % 33554432) * 8>>

\* x * 2^(e-3), x < 2^56, rounded to a double of sign s: to nearest, ties
\* to the even significand; beyond the largest double it is an infinity
D_round(s, e, x) ==
    LET h == x[1] \div 8
        l == (x[1] % 8) * 33554432 + (x[2] \div 8)
        rem == x[2] % 8
        up == rem > 4 \/ (rem = 4 /\ l % 2 = 1)
        l1 == IF up THEN (l + 1) % Limb ELSE l
        h1 == IF up /\ l + 1 = Limb THEN h + 1 ELSE h
    IN IF h1 = 33554432
       THEN (IF e + 1 > 971 THEN D_inf(s) ELSE <<s, e + 1, 16777216, 0>>)
       ELSE IF e > 971 THEN D_inf(s)
       ELSE <<s, e, h1, l1>>

\* x * 2^(e-3) with x shifted up until it has 56 bits or e is EMin
RECURSIVE D_norm(_, _, _)
D_norm(s, e, x) ==
    IF x[1] >= 134217728 \/ e = EMin \/ x = <<0, 0>> THEN D_round(s, e, x)
    ELSE D_norm(s, e - 1, N_shl1(x))

\* |a| < |b| for finite or infinite a, b
D_maglt(a, b) ==
    \/ a[2] < b[2]
    \/ a[2] = b[2] /\ N_lt(<<a[3], a[4]>>, <<b[3], b[4]>>)

\* |a| + |b| with sign s, for finite a, b with |a| >= |b|
D_addmag(s, a, b) ==
    LET x == N_add(N_ext(a[3], a[4]), N_shr(N_ext(b[3], b[4]), a[2] - b[2]))
    IN IF x[1] >= Limb THEN D_round(s, a[2] + 1, N_shr(x, 1))
       ELSE D_round(s, a[2], x)

\* |a| - |b| with sign s, for finite a, b with |a| > |b|
D_submag(s, a, b) ==
    D_norm(s, a[2], N_sub(N_ext(a[3], a[4]), N_shr(N_ext(b[3], b[4]), a[2] - b[2])))

\* a + b
D_plus(a, b) ==
    IF D_isnan(a) \/ D_isnan(b) THEN D_nan
    ELSE IF D_isinf(a) THEN (IF D_isinf(b) /\ a[1] # b[1] THEN D_nan ELSE a)
    ELSE IF D_isinf(b) THEN b
    ELSE IF a[1] = b[1]
         THEN (IF D_maglt(a, b) THEN D_addmag(a[1], b, a) ELSE D_addmag(a[1], a, b))
    ELSE IF D_maglt(a, b) THEN D_submag(b[1], b, a)
    ELSE IF D_maglt(b, a) THEN D_submag(a[1], a, b)
    ELSE D_zero

\* a - b
D_minus(a, b) == D_plus(a, D_neg(b))

\* a < b, a <= b
D_lt(a, b) ==
    IF D_isnan(a) \/ D_isnan(b) THEN FALSE
    ELSE IF D_iszero(a) /\ D_iszero(b) THEN FALSE
    ELSE IF a[1] # b[1] THEN a[1] = 1
    ELSE IF a[1] = 0 THEN D_maglt(a, b)
    ELSE D_maglt(b, a)

D_le(a, b) == ~D_isnan(a) /\ ~D_isnan(b) /\ ~D_lt(b, a)

\* a / 2.
D_half(a) ==
    IF a[2] = ESpecial \/ D_iszero(a) THEN a
    ELSE IF a[2] > EMin THEN <<a[1], a[2] - 1, a[3], a[4]>>
    ELSE D_round(a[1], EMin, N_shr(N_ext(a[3], a[4]), 1))

\* the whole number n, |n| < 2^25, as a double
D_int(n) ==
    IF n = 0 THEN D_zero
    ELSE IF n < 0 THEN D_norm(1, 0, <<0, (0 - n) * 8>>)
    ELSE D_norm(0, 0, <<0, n * 8>>)

\* the doubles 1.0 and 2.0
D_one == <<0, -52, 16777216, 0>>
D_two == <<0, -51, 16777216, 0>>
\* the double nearest 0.1, the upper limit of acc and dq
D_tenth == <<0, -56, 26843545, 161061274>>

DefAcc == 1
DefDq == <<0, -69, 21990232, 149121265>>
DefQlo == <<0, -62, 17179869, 49392124>>
DefQhi == D_two

DocAcc == 1
DocDq == <<0, -69, 21990232, 149121265>>
DocQlo == <<0, -60, 21474836, 128849019>>
DocQhi == D_two

DefFfac == 100
DefStar == 2
DefLobeN == 200
DefStep == 1
DefStype == 1
DefVstreamN == 60
DefStrmnxN == 1
DefStrmnxAcc == 1
DefDelta == 1

Origin == <<0, 0, 0>>

\* the exception type the handlers raise
PyExc_ValueError == "ValueError"
PyExc_MemoryError == "MemoryError"

(* ---------------------------------------------------------------------- *)
(* Inputs tried                                                            *)
(* ---------------------------------------------------------------------- *)

IangleVals == {0, 45, 90, 91}
PwidthVals == {0, 50, 250, 260}
AccVals == {0, 1, 1000, 2000}
\* dq: 0., 2^-54, 2^-20, 2^-4, 0.1 and 0.2
DqVals == {D_zero, <<0, -106, 16777216, 0>>, <<0, -72, 16777216, 0>>,
           <<0, -56, 16777216, 0>>, D_tenth, <<0, -55, 26843545, 161061274>>}
\* qlo: 0.125 and 1.0; qhi: 0.125, 1.0, 1.5 and 7.0
QloVals == {<<0, -55, 16777216, 0>>, D_one}
QhiVals == {<<0, -55, 16777216, 0>>, D_one, <<0, -52, 25165824, 0>>,
            <<0, -50, 29360128, 0>>}
\* the mass ratio from which the engine reports an eclipse: 0., 0.15, 1.3, 3.
Thresholds == {D_zero, <<0, -55, 20132659, 53687091>>,
               <<0, -52, 21810380, 214748365>>, D_int(3)}
QVals == {0 - 1, 0, 1}
NVals == {1, 2, 3}
FfacVals == {0, 50, 100, 101}
StarVals == {0, 1, 2, 3}
StepVals == {0, 1, 50, 100}
StypeVals == {0, 1, 2, 3}
RadVals == {0 - 1, 0, 100, 101}
DeltaVals == {0, 1}
PhiVals == {0, 25}

\* an optional positional argument: the values tried when it is supplied,
\* the initialiser of its variable when it is not
Opt(present, vals, dflt) == IF present THEN vals ELSE {dflt}

Min(a, b) == IF a < b THEN a ELSE b

(* ---------------------------------------------------------------------- *)
(* The engine, as far as the handlers see it                               *)
(* ---------------------------------------------------------------------- *)

\* Roche::fblink(q, ...): is the point eclipsed at mass ratio q
fblink(q, t) == D_le(t, q)

\* the arguments of one call of Roche::fblink
FblinkCall(q, iangle, phi, r, star, ffac, acc) ==
    [q |-> q, iangle |-> iangle, phi |-> phi, r |-> r, star |-> star,
     ffac |-> ffac, acc |-> acc]

\* Roche::strinit: the stream at the inner Lagrangian point
strinit(q) == [q |-> q, steps |-> 0, arc |-> 0]

\* Roche::strmnx: advance (r, v) to the next turning point, d further along
strmnx(s, d) == [q |-> s.q, steps |-> s.steps + 1, arc |-> s.arc + d]

\* Roche::vtrans: the velocity of state s in the frame of the given star
vtrans(star, s) == [star |-> star, q |-> s.q, steps |-> s.steps, arc |-> s.arc]

(* ---------------------------------------------------------------------- *)
(* Results of a handler                                                    *)
(* ---------------------------------------------------------------------- *)

NoRet == [status |-> "none", exc |-> "none", cause |-> "none", msg |-> "", val |-> 0]
Ok(v) == [status |-> "ok", exc |-> "none", cause |-> "none", msg |-> "", val |-> v]
Err(exc, cause, msg) ==
    [status |-> "error", exc |-> exc, cause |-> cause, msg |-> msg, val |-> 0]

NoArgs == [none |-> 0]

\* a handler that returns NULL from its argument checks
Reject(name, n, a, msg) ==
    /\ pc' = "done"
    /\ op' = name
    /\ nargs' = n
    /\ args' = a
    /\ loc' = NoArgs
    /\ calls' = {}
    /\ ncalls' = 0
    /\ ret' = Err(PyExc_ValueError, "invalid_argument", msg)
    /\ buf' = "none"

Init ==
    /\ pc = "idle"
    /\ op = "none"
    /\ nargs = 0
    /\ args = NoArgs
    /\ loc = NoArgs
    /\ thr = D_zero
    /\ calls = {}
    /\ ncalls = 0
    /\ ret = NoRet
    /\ buf = "none"

(* ---------------------------------------------------------------------- *)
(* roche_findq                                                             *)
(* ---------------------------------------------------------------------- *)

\* the argument checks, in order; "ok" when all pass
findq_check(iangle, pwidth, acc, dq) ==
    IF iangle <= 0 \/ iangle > 90 THEN "roche.findq: iangle out of range 0 to 90"
    ELSE IF pwidth <= 0 \/ pwidth > 250 THEN "roche.findq: pwidth out of range 0 to 0.25"
    ELSE IF acc <= 0 \/ acc > 1000 THEN "roche.findq: acc <= 0 or acc > 0.1"
    ELSE IF D_le(dq, D_zero) \/ D_lt(D_tenth, dq) THEN "roche.findq: dq <= 0 or dq > 0.1"
    ELSE "ok"

\* mutant: the phase of the test is the whole width
findq_phi_whole(pwidth) == pwidth

\* double phi = pwidth/2.  (the widths tried are even, the division exact)
findq_phi(pwidth) == pwidth \div 2

\* the call Roche::fblink(q, iangle, phi, r, Roche::SECONDARY, 1.0, acc)
findq_call(q, iangle, phi, acc) ==
    FblinkCall(q, iangle, phi, Origin, "SECONDARY", 100, acc)

\* neither branch of the if/else-if: the bracket ends differ
findq_bisects(elo, ehi) == ~(elo /\ ehi) /\ ~(~elo /\ ~ehi)

\* mutant: the two sentinels exchanged
findq_sentinel_swapped(elo, ehi) ==
    IF elo /\ ehi THEN D_neg(D_one) ELSE D_neg(D_two)

\* q = -2. when both ends are eclipsed, q = -1. when neither is
findq_sentinel(elo, ehi) ==
    IF elo /\ ehi THEN D_neg(D_two) ELSE D_neg(D_one)

\* (qlo+qhi)/2.
findq_mid(qlo, qhi) == D_half(D_plus(qlo, qhi))

\* the loop condition qhi - qlo > dq
findq_more(qlo, qhi, dq) == D_lt(dq, D_minus(qhi, qlo))

\* the body of the loop after the eclipse test e at the midpoint q
findq_narrow(qlo, qhi, q, e) == IF e THEN <<qlo, q>> ELSE <<q, qhi>>

roche_findq ==
    /\ pc = "idle"
    /\ \E n \in 2..6, iangle \in IangleVals, pwidth \in PwidthVals :
       \E acc \in Opt(n >= 3, AccVals, DefAcc), dq \in Opt(n >= 4, DqVals, DefDq) :
       \E qlo \in Opt(n >= 5, QloVals, DefQlo), qhi \in Opt(n >= 6, QhiVals, DefQhi) :
       \E t \in Thresholds :
         LET a == [iangle |-> iangle, pwidth |-> pwidth, acc |-> acc, dq |-> dq,
                   qlo |-> qlo, qhi |-> qhi]
             chk == findq_check(iangle, pwidth, acc, dq)
             phi == findq_phi(pwidth)
             elo == fblink(qlo, t)
             ehi == fblink(qhi, t)
         IN /\ thr' = t
            /\ IF chk # "ok" THEN Reject("findq", n, a, chk)
               ELSE /\ op' = "findq"
                    /\ nargs' = n
                    /\ args' = a
                    /\ calls' = {findq_call(qlo, iangle, phi, acc),
                                 findq_call(qhi, iangle, phi, acc)}
                    /\ ncalls' = 2
                    /\ buf' = "none"
                    /\ loc' = [phi |-> phi, elo |-> elo, ehi |-> ehi,
                               qlo |-> qlo, qhi |-> qhi, nbis |-> 0]
                    /\ IF findq_bisects(elo, ehi)
                       THEN pc' = "bisect" /\ ret' = NoRet
                       ELSE pc' = "done" /\ ret' = Ok(findq_sentinel(elo, ehi))

\* one iteration of while(qhi - qlo > dq)
roche_findq_bisect ==
    /\ pc = "bisect"
    /\ findq_more(loc.qlo, loc.qhi, args.dq)
    /\ LET q == findq_mid(loc.qlo, loc.qhi)
           e == fblink(q, thr)
           b == findq_narrow(loc.qlo, loc.qhi, q, e)
       IN /\ loc' = [loc EXCEPT !.qlo = b[1], !.qhi = b[2],
                                !.nbis = Min(loc.nbis + 1, MaxCalls)]
          /\ calls' = calls \cup {findq_call(q, args.iangle, loc.phi, args.acc)}
          /\ ncalls' = Min(ncalls + 1, MaxCalls)
    /\ UNCHANGED <<pc, op, nargs, args, thr, ret, buf>>

\* the loop is left: q = (qlo+qhi)/2. is returned
roche_findq_return ==
    /\ pc = "bisect"
    /\ ~findq_more(loc.qlo, loc.qhi, args.dq)
    /\ pc' = "done"
    /\ ret' = Ok(findq_mid(loc.qlo, loc.qhi))
    /\ UNCHANGED <<op, nargs, args, loc, thr, calls, ncalls, buf>>

(* ---------------------------------------------------------------------- *)
(* roche_fblink                                                            *)
(* ---------------------------------------------------------------------- *)

\* mutant: the upper inclination limit is off by one degree
fblink_check_91(q, iangle, ffac, acc, star) ==
    IF q <= 0 THEN "roche.fblink: q <= 0"
    ELSE IF iangle <= 0 \/ iangle > 91 THEN "roche.fblink: iangle out of range 0 to 90"
    ELSE IF ffac <= 0 \/ ffac > 100 THEN "roche.fblink: ffac out of range 0 to 1"
    ELSE IF acc <= 0 \/ acc > 1000 THEN "roche.fblink: acc <= 0 or acc > 0.1"
    ELSE IF star < 1 \/ star > 2 THEN "roche.fblink: star must be either 1 or 2"
    ELSE "ok"

fblink_check(q, iangle, ffac, acc, star) ==
    IF q <= 0 THEN "roche.fblink: q <= 0"
    ELSE IF iangle <= 0 \/ iangle > 90 THEN "roche.fblink: iangle out of range 0 to 90"
    ELSE IF ffac <= 0 \/ ffac > 100 THEN "roche.fblink: ffac out of range 0 to 1"
    ELSE IF acc <= 0 \/ acc > 1000 THEN "roche.fblink: acc <= 0 or acc > 0.1"
    ELSE IF star < 1 \/ star > 2 THEN "roche.fblink: star must be either 1 or 2"
    ELSE "ok"

\* star == 1 ? Roche::PRIMARY : Roche::SECONDARY
StarOf(star) == IF star = 1 THEN "PRIMARY" ELSE "SECONDARY"

roche_fblink ==
    /\ pc = "idle"
    /\ \E n \in 6..9, q \in QVals, iangle \in IangleVals, phi \in PhiVals :
       \E ffac \in Opt(n >= 7, FfacVals, DefFfac), acc \in Opt(n >= 8, AccVals, DefAcc) :
       \E star \in Opt(n >= 9, StarVals, DefStar), t \in {D_zero, D_int(3)} :
         LET a == [q |-> q, iangle |-> iangle, phi |-> phi, r |-> Origin,
                   ffac |-> ffac, acc |-> acc, star |-> star]
             chk == fblink_check(q, iangle, ffac, acc, star)
         IN /\ thr' = t
            /\ IF chk # "ok" THEN Reject("fblink", n, a, chk)
               ELSE /\ pc' = "done"
                    /\ op' = "fblink"
                    /\ nargs' = n
                    /\ args' = a
                    /\ loc' = NoArgs
                    /\ calls' = {FblinkCall(q, iangle, phi, Origin, StarOf(star), ffac, acc)}
                    /\ ncalls' = 1
                    /\ buf' = "none"
                    /\ ret' = Ok(IF fblink(D_int(q), t) THEN 1 ELSE 0)

(* ---------------------------------------------------------------------- *)
(* roche_ineg                                                              *)
(* ---------------------------------------------------------------------- *)

ineg_check(q, iangle, ffac, delta, star) ==
    IF q <= 0 THEN "roche.ineg: q <= 0"
    ELSE IF iangle <= 0 \/ iangle > 90 THEN "roche.ineg: iangle out of range 0 to 90"
    ELSE IF ffac <= 0 \/ ffac > 100 THEN "roche.ineg: ffac out of range 0 to 1"
    ELSE IF delta <= 0 THEN "roche.ineg: delta <= 0"
    ELSE IF star < 1 \/ star > 2 THEN "roche.ineg: star must be either 1 or 2"
    ELSE "ok"

\* what roche_ineg returns when Roche::ingress_egress reports no eclipse
ineg_not_eclipsed ==
    Err(PyExc_ValueError, "domain", "roche.ineg: point is not eclipsed")

roche_ineg ==
    /\ pc = "idle"
    /\ \E n \in 5..8, q \in QVals, iangle \in IangleVals :
       \E ffac \in Opt(n >= 6, FfacVals, DefFfac), delta \in Opt(n >= 7, DeltaVals, DefDelta) :
       \E star \in Opt(n >= 8, StarVals, DefStar), eclipsed \in BOOLEAN :
         LET a == [q |-> q, iangle |-> iangle, r |-> Origin, ffac |-> ffac,
                   delta |-> delta, star |-> star]
             chk == ineg_check(q, iangle, ffac, delta, star)
         IN /\ UNCHANGED thr
            /\ IF chk # "ok" THEN Reject("ineg", n, a, chk)
               ELSE /\ pc' = "done"
                    /\ op' = "ineg"
                    /\ nargs' = n
                    /\ args' = a
                    /\ loc' = NoArgs
                    /\ calls' = {}
                    /\ ncalls' = 1
                    /\ buf' = "none"
                    /\ ret' = IF eclipsed THEN Ok(0) ELSE ineg_not_eclipsed

(* ---------------------------------------------------------------------- *)
(* roche_lobe1, roche_lobe2, roche_vlobe1, roche_vlobe2, roche_stream      *)
(* ---------------------------------------------------------------------- *)

lobe1_check(q, n) ==
    IF q <= 0 THEN "roche.lobe1: q <= 0"
    ELSE IF n < 2 THEN "roche.lobe1: n < 2"
    ELSE "ok"

lobe2_check(q, n) ==
    IF q <= 0 THEN "roche.lobe2: q <= 0"
    ELSE IF n < 2 THEN "roche.lobe2: n < 2 in"
    ELSE "ok"

vlobe1_check(q, n) ==
    IF q <= 0 THEN "roche.vlobe1: q <= 0"
    ELSE IF n < 2 THEN "roche.vlobe1: n < 2"
    ELSE "ok"

vlobe2_check(q, n) ==
    IF q <= 0 THEN "roche.vlobe2: q <= 0"
    ELSE IF n < 2 THEN "roche.vlobe2: n < 2"
    ELSE "ok"

stream_check(q, rad, n) ==
    IF q <= 0 THEN "roche.stream: q <= 0"
    ELSE IF rad < 0 \/ rad > 100 THEN "roche.stream: rad < 0 or > 1."
    ELSE IF n < 2 THEN "roche.stream: n < 2"
    ELSE "ok"

\* PyArray_SimpleNew returned NULL: the handler returns NULL at once
AllocFailed(name, n, a) ==
    /\ pc' = "done"
    /\ op' = name
    /\ nargs' = n
    /\ args' = a
    /\ loc' = NoArgs
    /\ calls' = {}
    /\ ncalls' = 0
    /\ ret' = Err(PyExc_MemoryError, "alloc", "")
    /\ buf' = "none"

\* the array is filled by the engine routine and handed to the caller
ArrayReturned(name, n, a, len) ==
    /\ pc' = "done"
    /\ op' = name
    /\ nargs' = n
    /\ args' = a
    /\ loc' = NoArgs
    /\ calls' = {}
    /\ ncalls' = 1
    /\ ret' = Ok(len)
    /\ buf' = "returned"

roche_lobe1 ==
    /\ pc = "idle"
    /\ \E na \in 1..2, q \in QVals, alloc \in BOOLEAN :
       \E n \in Opt(na >= 2, NVals, DefLobeN) :
         LET a == [q |-> q, n |-> n]
             chk == lobe1_check(q, n)
         IN /\ UNCHANGED thr
            /\ IF chk # "ok" THEN Reject("lobe1", na, a, chk)
               ELSE IF ~alloc THEN AllocFailed("lobe1", na, a)
               ELSE ArrayReturned("lobe1", na, a, n)

roche_lobe2 ==
    /\ pc = "idle"
    /\ \E na \in 1..2, q \in QVals, alloc \in BOOLEAN :
       \E n \in Opt(na >= 2, NVals, DefLobeN) :
         LET a == [q |-> q, n |-> n]
             chk == lobe2_check(q, n)
         IN /\ UNCHANGED thr
            /\ IF chk # "ok" THEN Reject("lobe2", na, a, chk)
               ELSE IF ~alloc THEN AllocFailed("lobe2", na, a)
               ELSE ArrayReturned("lobe2", na, a, n)

roche_vlobe1 ==
    /\ pc = "idle"
    /\ \E na \in 1..2, q \in QVals, alloc \in BOOLEAN :
       \E n \in Opt(na >= 2, NVals, DefLobeN) :
         LET a == [q |-> q, n |-> n]
             chk == vlobe1_check(q, n)
         IN /\ UNCHANGED thr
            /\ IF chk # "ok" THEN Reject("vlobe1", na, a, chk)
               ELSE IF ~alloc THEN AllocFailed("vlobe1", na, a)
               ELSE ArrayReturned("vlobe1", na, a, n)

roche_vlobe2 ==
    /\ pc = "idle"
    /\ \E na \in 1..2, q \in QVals, alloc \in BOOLEAN :
       \E n \in Opt(na >= 2, NVals, DefLobeN) :
         LET a == [q |-> q, n |-> n]
             chk == vlobe2_check(q, n)
         IN /\ UNCHANGED thr
            /\ IF chk # "ok" THEN Reject("vlobe2", na, a, chk)
               ELSE IF ~alloc THEN AllocFailed("vlobe2", na, a)
               ELSE ArrayReturned("vlobe2", na, a, n)

roche_stream ==
    /\ pc = "idle"
    /\ \E na \in 2..3, q \in QVals, rad \in RadVals, alloc \in BOOLEAN :
       \E n \in Opt(na >= 3, NVals, DefLobeN) :
         LET a == [q |-> q, rad |-> rad, n |-> n]
             chk == stream_check(q, rad, n)
         IN /\ UNCHANGED thr
            /\ IF chk # "ok" THEN Reject("stream", na, a, chk)
               ELSE IF ~alloc THEN AllocFailed("stream", na, a)
               ELSE ArrayReturned("stream", na, a, n)

(* ---------------------------------------------------------------------- *)
(* roche_vstream                                                           *)
(* ---------------------------------------------------------------------- *)

vstream_check(q, step, stype, n) ==
    IF q <= 0 THEN "roche.vstream: q <= 0"
    ELSE IF step <= 0 \/ step >= 100 THEN "roche.vstream: step <= 0 or >= 1."
    ELSE IF stype < 1 /\ stype > 2 THEN "roche.vstream: stype must be 1 or 2"
    ELSE IF n < 2 THEN "roche.vstream: n < 2"
    ELSE "ok"

\* what the catch clause returns; it returns NULL with v still referenced
vstream_caught ==
    Err(PyExc_ValueError, "domain", "roche.vstream: Roche_Error")

\* the state of the array v when the catch clause returns
vstream_caught_buf == "held"

roche_vstream ==
    /\ pc = "idle"
    /\ \E na \in 1..4, q \in QVals, alloc \in BOOLEAN, thrown \in BOOLEAN :
       \E step \in Opt(na >= 2, StepVals, DefStep), stype \in Opt(na >= 3, StypeVals, DefStype) :
       \E n \in Opt(na >= 4, NVals, DefVstreamN) :
         LET a == [q |-> q, step |-> step, stype |-> stype, n |-> n]
             chk == vstream_check(q, step, stype, n)
         IN /\ UNCHANGED thr
            /\ IF chk # "ok" THEN Reject("vstream", na, a, chk)
               ELSE IF ~alloc THEN AllocFailed("vstream", na, a)
               ELSE IF thrown
               THEN /\ pc' = "done"
                    /\ op' = "vstream"
                    /\ nargs' = na
                    /\ args' = a
                    /\ loc' = NoArgs
                    /\ calls' = {}
                    /\ ncalls' = 1
                    /\ ret' = vstream_caught
                    /\ buf' = vstream_caught_buf
               ELSE ArrayReturned("vstream", na, a, n)

(* ---------------------------------------------------------------------- *)
(* roche_strmnx                                                            *)
(* ---------------------------------------------------------------------- *)

strmnx_check(q, n, acc) ==
    IF q < 0 THEN "roche.strmnx: q <= 0"
    ELSE IF n < 1 THEN "roche.strmnx: n < 1"
    ELSE IF acc <= 0 THEN "roche.strmnx: acc <= 0"
    ELSE "ok"

\* mutant: the loop runs once more
strmnx_more_inclusive(i, n) == i <= n

\* the loop condition i < n
strmnx_more(i, n) == i < n

roche_strmnx ==
    /\ pc = "idle"
    /\ \E na \in 1..3, q \in QVals :
       \E n \in Opt(na >= 2, 0..MaxN, DefStrmnxN), acc \in Opt(na >= 3, {0, 1}, DefStrmnxAcc) :
         LET a == [q |-> q, n |-> n, acc |-> acc]
             chk == strmnx_check(q, n, acc)
         IN /\ UNCHANGED thr
            /\ IF chk # "ok" THEN Reject("strmnx", na, a, chk)
               ELSE /\ pc' = "strmnx"
                    /\ op' = "strmnx"
                    /\ nargs' = na
                    /\ args' = a
                    /\ loc' = [i |-> 0, rv |-> strinit(q), trail |-> <<>>]
                    /\ calls' = {}
                    /\ ncalls' = 1
                    /\ ret' = NoRet
                    /\ buf' = "none"

\* one iteration of for(int i=0; i<n; i++) Roche::strmnx(q, r, v, acc)
roche_strmnx_step ==
    /\ pc = "strmnx"
    /\ strmnx_more(loc.i, args.n)
    /\ \E d \in 1..MaxArcStep :
         LET s == strmnx(loc.rv, d)
         IN loc' = [i |-> loc.i + 1, rv |-> s, trail |-> Append(loc.trail, s.arc)]
    /\ ncalls' = Min(ncalls + 1, MaxCalls)
    /\ UNCHANGED <<pc, op, nargs, args, thr, calls, ret, buf>>

\* after the loop: both frame transforms of (r, v), then the tuple
roche_strmnx_return ==
    /\ pc = "strmnx"
    /\ ~strmnx_more(loc.i, args.n)
    /\ pc' = "done"
    /\ ret' = Ok([pos |-> loc.rv, tv1 |-> vtrans(1, loc.rv), tv2 |-> vtrans(2, loc.rv)])
    /\ ncalls' = Min(ncalls + 2, MaxCalls)
    /\ UNCHANGED <<op, nargs, args, loc, thr, calls, buf>>

(* ---------------------------------------------------------------------- *)
(* The caller takes the result; the next call starts afresh                *)
(* ---------------------------------------------------------------------- *)

Return ==
    /\ pc = "done"
    /\ pc' = "idle"
    /\ op' = "none"
    /\ nargs' = 0
    /\ args' = NoArgs
    /\ loc' = NoArgs
    /\ thr' = D_zero
    /\ calls' = {}
    /\ ncalls' = 0
    /\ ret' = NoRet
    /\ buf' = "none"

Next ==
    \/ roche_findq
    \/ roche_findq_bisect
    \/ roche_findq_return
    \/ roche_fblink
    \/ roche_ineg
    \/ roche_lobe1
    \/ roche_lobe2
    \/ roche_stream
    \/ roche_strmnx
    \/ roche_strmnx_step
    \/ roche_strmnx_return
    \/ roche_vlobe1
    \/ roche_vlobe2
    \/ roche_vstream
    \/ Return

Spec == Init /\ [][Next]_vars


(* ---------------------------------------------------------------------- *)
(* Properties                                                              *)
(* ---------------------------------------------------------------------- *)

\* the eclipse test at the bracket ends the caller supplied
EcLo == fblink(args.qlo, thr)
EcHi == fblink(args.qhi, thr)

\* a findq call that passed its argument checks
FindqRunning == op = "findq" /\ ret.status # "error"

\* C1: in findq, for arguments that pass validation, two eclipsed bracket
\* ends give exactly -2 and two non-eclipsed ends exactly -1; in both cases
\* no bisection step runs and the eclipse test is evaluated exactly twice.
C1_Sentinels ==
    (FindqRunning /\ EcLo = EcHi) =>
        /\ pc = "done"
        /\ ret.status = "ok"
        /\ EcLo => ret.val = D_neg(D_two)
        /\ ~EcLo => ret.val = D_neg(D_one)
        /\ loc.nbis = 0
        /\ ncalls = 2
        /\ loc.qlo = args.qlo /\ loc.qhi = args.qhi

\* a degenerate call on a bracket wider than dq: both ends eclipsed
C1_Witness ==
    /\ FindqRunning /\ pc = "done"
    /\ EcLo /\ EcHi
    /\ findq_more(args.qlo, args.qhi, args.dq)
    /\ ret.val = D_neg(D_two)

\* C2: in findq, whenever the eclipse test differs between the bracket ends,
\* in either orientation, the final bracket lies in [qlo,qhi], is no wider
\* than dq, has one eclipsed and one non-eclipsed end, and holds the
\* returned q.
C2_Claim ==
    (FindqRunning /\ pc = "done" /\ EcLo # EcHi) =>
        /\ fblink(loc.qlo, thr) # fblink(loc.qhi, thr)
        /\ D_le(args.qlo, loc.qlo) /\ D_le(loc.qhi, args.qhi)
        /\ D_le(loc.qlo, ret.val) /\ D_le(ret.val, loc.qhi)
        /\ ~findq_more(loc.qlo, loc.qhi, args.dq)

\* C3: vstream rejects every stream type outside {1,2} with invalid-argument
\* before the integration is invoked and before the buffer is allocated.
C3_Claim ==
    (op = "vstream" /\ pc = "done" /\ args.stype \notin {1, 2}) =>
        /\ ret.status = "error"
        /\ ret.cause = "invalid_argument"
        /\ ncalls = 0
        /\ buf = "none"

\* C4: a domain error (ineg on a point never eclipsed, vstream whose
\* integration fails) is raised as an error kind other than the one the
\* argument checks raise.
C4_Claim ==
    (pc = "done" /\ ret.cause = "domain") => ret.exc # PyExc_ValueError

\* the call returned NULL from an argument check, before any engine routine
\* ran and before any buffer was allocated
Rejected ==
    /\ pc = "done"
    /\ ret.status = "error"
    /\ ret.exc = PyExc_ValueError
    /\ ret.cause = "invalid_argument"
    /\ ncalls = 0
    /\ calls = {}
    /\ buf = "none"

\* C5: lobe boundary with n=1, eclipse test with inclination 0 or 91,
\* vstream with step 1.0 and findq with accuracy 0.2 each fail with
\* invalid-argument before any engine routine or allocation.
C5_Literals ==
    /\ (op \in {"lobe1", "lobe2"} /\ args.n = 1) => Rejected
    /\ (op = "fblink" /\ args.iangle \in {0, 91}) => Rejected
    /\ (op = "vstream" /\ args.step = 100) => Rejected
    /\ (op = "findq" /\ args.acc = 2000) => Rejected

\* an eclipse test at inclination 91 with every other argument valid
C5_Witness ==
    /\ op = "fblink" /\ pc = "done"
    /\ args.iangle = 91
    /\ fblink_check(args.q, 90, args.ffac, args.acc, args.star) = "ok"
    /\ ret.msg = "roche.fblink: iangle out of range 0 to 90"

\* C6 as claimed: every eclipse test of findq is at an orbital phase equal to
\* the second argument, for the point at the origin, against the secondary
\* star with fill factor 1.
C6_Claim ==
    FindqRunning =>
        \A c \in calls :
            /\ c.phi = args.pwidth
            /\ c.r = Origin /\ c.star = "SECONDARY" /\ c.ffac = 100

\* C6 amended: every eclipse test of findq (at qlo, at qhi, at each
\* midpoint) is at an orbital phase equal to half the second argument, for
\* the point at the origin, against the secondary star with fill factor 1.
C6_HalfOfWidth ==
    FindqRunning =>
        /\ {args.qlo, args.qhi} \subseteq {c.q : c \in calls}
        /\ \A c \in calls :
            /\ 2 * c.phi = args.pwidth
            /\ c.r = Origin /\ c.star = "SECONDARY" /\ c.ffac = 100
            /\ c.iangle = args.iangle /\ c.acc = args.acc

\* a bisection under way: both ends and at least one midpoint were tested
C6_Witness ==
    /\ FindqRunning /\ pc = "bisect"
    /\ loc.nbis >= 1
    /\ Cardinality(calls) >= 3

\* C7: findq called with inclination and phase width only uses the defaults
\* of its documentation string: acc 1e-4, dq 1e-5, qlo 0.005, qhi 2.
C7_Claim ==
    (op = "findq" /\ nargs = 2) =>
        /\ args.acc = DocAcc
        /\ args.dq = DocDq
        /\ args.qlo = DocQlo
        /\ args.qhi = DocQhi

\* C8: the n-th turning point is the stream's initial state advanced by the
\* turning-point step exactly n times, each step continuing from the last,
\* so its arc length exceeds that of the (n-1)-th, and both reported
\* velocities are frame transforms of that final state.
C8_TurningPoints ==
    /\ (op = "strmnx" /\ pc = "strmnx") =>
           /\ loc.rv.steps = loc.i /\ loc.i <= args.n
           /\ Len(loc.trail) = loc.i
    /\ (op = "strmnx" /\ pc = "done" /\ ret.status = "ok") =>
           /\ ret.val.pos.steps = args.n
           /\ ret.val.pos.q = args.q
           /\ Len(loc.trail) = args.n
           /\ \A k \in 1..Len(loc.trail) :
                  loc.trail[k] > (IF k = 1 THEN 0 ELSE loc.trail[k - 1])
           /\ ret.val.pos.arc = loc.trail[args.n]
           /\ ret.val.tv1 = vtrans(1, ret.val.pos)
           /\ ret.val.tv2 = vtrans(2, ret.val.pos)

\* the third turning point has been returned
C8_Witness ==
    /\ op = "strmnx" /\ pc = "done" /\ ret.status = "ok"
    /\ args.n = 3
    /\ Len(loc.trail) = 3

\* C9 (termination): for a validated findq call whose bracket ends differ,
\* every iteration of the bisection loop leaves a strictly narrower bracket
\* inside the caller's bracket, so that the loop terminates.
C9_Claim ==
    (FindqRunning /\ pc = "bisect" /\ findq_more(loc.qlo, loc.qhi, args.dq)) =>
        LET q == findq_mid(loc.qlo, loc.qhi)
            b == findq_narrow(loc.qlo, loc.qhi, q, fblink(q, thr))
        IN /\ D_le(args.qlo, b[1]) /\ D_le(b[2], args.qhi)
           /\ D_le(b[1], b[2])
           /\ (D_lt(loc.qlo, b[1]) \/ D_lt(b[2], loc.qhi))

\* C10: in every array-returning operation no path that ends in an error
\* leaves an allocated output buffer unreleased.
C10_Claim ==
    (pc = "done" /\ ret.status = "error"
       /\ op \in {"lobe1", "lobe2", "vlobe1", "vlobe2", "stream", "vstream"}) =>
        buf \in {"none", "released"}

====
